---- MODULE Spec2Model ----
(***************************************************************************)
(* A model of app.py of VimeoTranscript: the caption parser sanitize_vtt,  *)
(* the filler normalizer clean_hesitations and the Sanitize button handler *)
(* setup_sanitize_download with its two fetches of the subtitle file.      *)
(*                                                                         *)
(* A Python str is modelled as a sequence of one-character strings, so     *)
(* that the regular expressions of the source are computed character by    *)
(* character, left to right, as re.sub computes them.                      *)
(***************************************************************************)
EXTENDS Naturals, Sequences, FiniteSets

(***************************************************************************)
(* Bounds of the model.                                                    *)
(***************************************************************************)
\* the longest input of clean_hesitations, in tokens of Tokens
MaxTokens == 4
\* the longest caption payload of sanitize_vtt, in lines of Lines
MaxLines == 3
\* the longest response body of a fetch, in lines of BodyLines
MaxBodyLines == 2

(***************************************************************************)
(* Character classes of Python's re module and of str: the ASCII           *)
(* characters, one digit that is not a decimal digit, and the whitespace   *)
(* characters up to U+1680. The spaces from U+2000 on (U+2000..U+200A,     *)
(* U+2028, U+2029, U+202F, U+205F, U+3000) are whitespace too and are not  *)
(* characters of this model.                                               *)
(***************************************************************************)
UpperSeq ==
    << "A", "B", "C", "D", "E", "F", "G", "H", "I", "J", "K", "L", "M",
       "N", "O", "P", "Q", "R", "S", "T", "U", "V", "W", "X", "Y", "Z" >>

LowerSeq ==
    << "a", "b", "c", "d", "e", "f", "g", "h", "i", "j", "k", "l", "m",
       "n", "o", "p", "q", "r", "s", "t", "u", "v", "w", "x", "y", "z" >>

Uppers == { UpperSeq[i] : i \in 1..26 }

Lowers == { LowerSeq[i] : i \in 1..26 }

\* the decimal digits
Digits == { "0", "1", "2", "3", "4", "5", "6", "7", "8", "9" }

\* a digit that is not a decimal digit: str.isdigit() holds of it and
\* str.isdecimal() does not
OtherDigits == { "²" }

\* the characters str.isdigit() holds of
DigitChars == Digits \cup OtherDigits

\* \w
WordChars == Uppers \cup Lowers \cup DigitChars \cup { "_" }

\* U+000B, the vertical tab (\v)
VT == ""

\* U+001C..U+001F, the file, group, record and unit separators
FS == ""

GS == ""

RS == ""

US == ""

\* U+0085, next line
NEL == ""

\* U+00A0, the no-break space
NBSP == " "

\* U+1680, the ogham space mark
OGHAM == " "

\* \s, and the characters str.strip() removes (str.isspace())
WhiteSpace ==
    { " ", "\t", "\n", "\r", "\f", VT, FS, GS, RS, US, NEL, NBSP, OGHAM }

\* the class [.,] of the filler pattern
FillerPunct == { ".", "," }

\* the class [.,!?] of the space-before-punctuation pattern
SentencePunct == { ".", ",", "!", "?" }

IsWord(c) == c \in WordChars

IsSpace(c) == c \in WhiteSpace

LowerMap == [ c \in Uppers |-> LowerSeq[CHOOSE i \in 1..26 : UpperSeq[i] = c] ]

\* re.IGNORECASE: both sides are compared in lower case
LowerCaseSensitive(c) == c

Lower(c) == IF c \in Uppers THEN LowerMap[c] ELSE c

\* \b at offset p of s (between s[p] and s[p+1]; offsets count from 0)
Boundary(s, p) ==
    ((p > 0) /\ IsWord(s[p])) # ((p < Len(s)) /\ IsWord(s[p + 1]))

\* the number of consecutive whitespace characters of s from offset p on
RECURSIVE SpaceRun(_, _)
SpaceRun(s, p) ==
    IF p < Len(s) /\ IsSpace(s[p + 1]) THEN 1 + SpaceRun(s, p + 1) ELSE 0

\* the number of consecutive whitespace characters of s that end at offset p
RECURSIVE SpaceRunBack(_, _)
SpaceRunBack(s, p) ==
    IF p > 0 /\ IsSpace(s[p]) THEN 1 + SpaceRunBack(s, p - 1) ELSE 0

\* str.strip()
strip(s) ==
    LET a == SpaceRun(s, 0)
        b == SpaceRunBack(s, Len(s))
    IN  IF a = Len(s) THEN << >> ELSE SubSeq(s, a + 1, Len(s) - b)

(***************************************************************************)
(* clean_hesitations.                                                      *)
(***************************************************************************)
FILLERS == << << "u", "h" >>, << "u", "m" >>, << "h", "m", "m" >> >>

\* whether the letters of filler f stand at offset p of s, in any case
LettersAt(s, f, p) ==
    /\ p + Len(f) <= Len(s)
    /\ \A k \in 1..Len(f) : Lower(s[p + k]) = f[k]

\* The length of the match of  \b f [.,]? \b  at offset p of s, 0 for no
\* match. [.,]? is greedy: the punctuation is taken when a word boundary
\* follows it, and given back otherwise.
FillerMatchLen(s, f, p) ==
    LET n == Len(f)
    IN  IF ~(Boundary(s, p) /\ LettersAt(s, f, p)) THEN 0
        ELSE IF /\ p + n < Len(s)
                /\ s[p + n + 1] \in FillerPunct
                /\ Boundary(s, p + n + 1) THEN n + 1
        ELSE IF Boundary(s, p + n) THEN n
        ELSE 0

\* re.sub(pattern, '', text, flags=re.IGNORECASE) from offset p on
RECURSIVE SubFiller(_, _, _)
SubFiller(s, f, p) ==
    IF p >= Len(s) THEN << >>
    ELSE LET n == FillerMatchLen(s, f, p)
         IN  IF n > 0 THEN SubFiller(s, f, p + n)
             ELSE << s[p + 1] >> \o SubFiller(s, f, p + 1)

\* the loop over the fillers, one removal pass each, in the order of fs
RECURSIVE RemoveFillers(_, _)
RemoveFillers(fs, s) ==
    IF fs = << >> THEN s
    ELSE RemoveFillers(Tail(fs), SubFiller(s, Head(fs), 0))

\* re.sub(r'\s{2,}', ' ', text) from offset p on
RECURSIVE SubSpaces(_, _)
SubSpaces(s, p) ==
    IF p >= Len(s) THEN << >>
    ELSE LET r == SpaceRun(s, p)
         IN  IF r >= 2 THEN << " " >> \o SubSpaces(s, p + r)
             ELSE << s[p + 1] >> \o SubSpaces(s, p + 1)

CollapseSpacesIdentity(s) == s

CollapseSpaces(s) == SubSpaces(s, 0)

\* re.sub(r'\s+([.,!?])', r'\1', text) from offset p on
RECURSIVE SubSpaceBeforePunct(_, _)
SubSpaceBeforePunct(s, p) ==
    IF p >= Len(s) THEN << >>
    ELSE LET r == SpaceRun(s, p)
         IN  IF r >= 1 /\ p + r < Len(s) /\ s[p + r + 1] \in SentencePunct
             THEN << s[p + r + 1] >> \o SubSpaceBeforePunct(s, p + r + 1)
             ELSE << s[p + 1] >> \o SubSpaceBeforePunct(s, p + 1)

FixSpaceBeforePunct(s) == SubSpaceBeforePunct(s, 0)

\* re.sub(r'^,\s*', '', text): ^ matches at the start of the string only
StripLeadingComma(s) ==
    IF Len(s) >= 1 /\ s[1] = ","
    THEN SubSeq(s, 2 + SpaceRun(s, 1), Len(s))
    ELSE s

\* clean_hesitations with the filler list as a parameter
CleanWith(fs, text) ==
    strip(StripLeadingComma(FixSpaceBeforePunct(CollapseSpaces(
        RemoveFillers(fs, text)))))

clean_hesitations(text) == CleanWith(FILLERS, text)

(***************************************************************************)
(* sanitize_vtt. The file is the sequence of its lines, as the loop        *)
(* "for line in file" reads them, each without its line terminator.        *)
(***************************************************************************)
WEBVTT == << "W", "E", "B", "V", "T", "T" >>

\* the separator of a timestamp line
ARROW == << "-", "-", ">" >>

\* sub in s
Contains(s, sub) ==
    \E p \in 0..Len(s) :
        /\ p + Len(sub) <= Len(s)
        /\ SubSeq(s, p + 1, p + Len(sub)) = sub

\* str.isdigit(): at least one character, and every character a digit
isdigit(s) == Len(s) > 0 /\ \A i \in 1..Len(s) : s[i] \in DigitChars

\* the four "continue" tests of the loop, on the stripped line
SkippedNoDigitTest(line) ==
    \/ line = << >>
    \/ line = WEBVTT
    \/ Contains(line, ARROW)

Skipped(line) ==
    \/ line = << >>
    \/ line = WEBVTT
    \/ isdigit(line)
    \/ Contains(line, ARROW)

\* the loop: cleaned_lines after the lines of file have been read
RECURSIVE CleanedLines(_)
CleanedLines(file) ==
    IF file = << >> THEN << >>
    ELSE LET line == strip(Head(file))
         IN  IF Skipped(line) THEN CleanedLines(Tail(file))
             ELSE << line >> \o CleanedLines(Tail(file))

\* " ".join(lines)
RECURSIVE JoinSpace(_)
JoinSpace(lines) ==
    IF lines = << >> THEN << >>
    ELSE IF Len(lines) = 1 THEN Head(lines)
    ELSE Head(lines) \o << " " >> \o JoinSpace(Tail(lines))

sanitize_vtt(file) == JoinSpace(CleanedLines(file))

(***************************************************************************)
(* The state.                                                              *)
(*   pc             where the script run of the Sanitize button stands     *)
(*   sub_path       the path the user entered (with a leading "/" once the *)
(*                  button was pressed), full_url the URL built of it      *)
(*   requests       the URLs fetched in this run, in order                 *)
(*   statuses       the status codes those fetches returned                *)
(*   errors         the st.error messages of this run (the status shown)   *)
(*   disk           the files named FILENAME: none, or one (its lines)     *)
(*   cleaned_text   the result of sanitize_vtt (empty before it ran)       *)
(*   filtered_text  the result of clean_hesitations (empty before it ran)  *)
(*   widgets        the widgets the run has shown                          *)
(* and, for the specifications that apply clean_hesitations to a string:   *)
(*   text, once, twice   an input, its cleaning, the cleaning of that      *)
(*   order               the order of the filler passes                    *)
(*   stage               "input", "cleaned" or "recleaned"                 *)
(***************************************************************************)
VARIABLES pc, sub_path, full_url, requests, statuses, errors, disk,
          cleaned_text, filtered_text, widgets, text, once, twice, order,
          stage

vars ==
    << pc, sub_path, full_url, requests, statuses, errors, disk,
       cleaned_text, filtered_text, widgets, text, once, twice, order,
       stage >>

pipeline_vars ==
    << pc, sub_path, full_url, requests, statuses, errors, disk,
       cleaned_text, filtered_text, widgets >>

string_vars == << text, once, twice, order, stage >>

(***************************************************************************)
(* Constants of the program.                                               *)
(***************************************************************************)
BASE_URL ==
    << "h", "t", "t", "p", "s", ":", "/", "/", "p", "l", "a", "y", "e", "r",
       ".", "v", "i", "m", "e", "o", ".", "c", "o", "m" >>

\* response.status_code == 200
HTTP_OK == 200

\* the widgets of the export UI
ExportWidgets == { "text_area", "txt", "docx", "pdf" }

(***************************************************************************)
(* The inputs.                                                             *)
(***************************************************************************)
RECURSIVE Concat(_)
Concat(ts) == IF ts = << >> THEN << >> ELSE Head(ts) \o Concat(Tail(ts))

SeqsUpTo(S, n) == UNION { [1..k -> S] : k \in 0..n }

\* the pieces the inputs of clean_hesitations are built of: the fillers, a
\* filler in mixed case, a word character, three whitespace characters
\* and three punctuation characters
Tokens ==
    { << "u", "h" >>, << "u", "m" >>, << "h", "m", "m" >>, << "U", "m" >>,
      << "a" >>, << " " >>, << "\t" >>, << VT >>, << "," >>, << "." >>,
      << "!" >> }

Texts == { Concat(ts) : ts \in SeqsUpTo(Tokens, MaxTokens) }

\* the orders the filler list can be iterated in
Orders ==
    { o \in [1..Len(FILLERS) -> { FILLERS[i] : i \in 1..Len(FILLERS) }] :
        \A i, j \in 1..Len(FILLERS) : i # j => o[i] # o[j] }

\* the lines of a caption payload: blank, header, header with spaces
\* around it, cue numbers, a line that is a superscript digit, a timestamp
\* line, spoken text with and without spaces around it, a line of digits
\* and letters, a line that starts with the header
Lines ==
    { << >>,
      << " ", VT >>,
      WEBVTT,
      << " " >> \o WEBVTT \o << "\t" >>,
      WEBVTT \o << " ", "x" >>,
      << "7" >>,
      << "1", "2" >>,
      << "²" >>,
      << "1", " ", "-", "-", ">", " ", "2" >>,
      << US, "h", "i", " " >>,
      << "u", "h", "," >>,
      << "a", "1" >> }

Payloads == SeqsUpTo(Lines, MaxLines)

\* the lines of a response body
BodyLines ==
    { WEBVTT,
      << "1", " ", "-", "-", ">", " ", "2" >>,
      << "u", "h" >>,
      << "h", "i" >> }

Bodies == SeqsUpTo(BodyLines, MaxBodyLines)

Statuses == { HTTP_OK, 404 }

\* the text of the input field: with and without the leading "/", or empty
SubPaths ==
    { << "/", "t", ".", "v", "t", "t" >>, << "t", ".", "v", "t", "t" >>,
      << >> }

(***************************************************************************)
(* setup_sanitize_download, one script run of the pressed Sanitize button. *)
(***************************************************************************)
\* if not sub_path.startswith("/"): sub_path = "/" + sub_path
NormalizePath(path) ==
    IF Len(path) >= 1 /\ path[1] = "/" THEN path ELSE << "/" >> \o path

\* the truth value of a str: "if cleaned_text:"
TruthyAlways(s) == TRUE

Truthy(s) == s # << >>

\* the file FILENAME, read back by sanitize_vtt
TheFile == CHOOSE f \in disk : TRUE

\* The button is pressed: the script runs again from the top, with nothing
\* shown yet; the file of an earlier run is still on the disk.
Click(path) ==
    /\ pc \in { "idle", "unpressed", "done", "stopped" }
    /\ sub_path' = NormalizePath(path)
    /\ full_url' = BASE_URL \o NormalizePath(path)
    /\ requests' = << >>
    /\ statuses' = << >>
    /\ errors' = << >>
    /\ cleaned_text' = << >>
    /\ filtered_text' = << >>
    /\ widgets' = { }
    /\ pc' = "fetch1"
    /\ UNCHANGED << disk, string_vars >>

\* The script runs again and st.button("Sanitize") returns False (line
\* 123): nothing is fetched, and nothing of an earlier run is shown any
\* more; the file stays on the disk. sub_path is the text of the input
\* field as it was entered (line 162), not normalised.
NoPress(path) ==
    /\ pc \in { "idle", "unpressed", "done", "stopped" }
    /\ sub_path' = path
    /\ full_url' = << >>
    /\ requests' = << >>
    /\ statuses' = << >>
    /\ errors' = << >>
    /\ cleaned_text' = << >>
    /\ filtered_text' = << >>
    /\ widgets' = { }
    /\ pc' = "unpressed"
    /\ UNCHANGED << disk, string_vars >>

\* download_subtitles_file(full_url), answered with status and body: the
\* body is written to FILENAME on 200, an error is shown otherwise.
download_subtitles_file(status, body) ==
    /\ requests' = Append(requests, full_url)
    /\ statuses' = Append(statuses, status)
    /\ IF status = HTTP_OK
       THEN disk' = { body } /\ errors' = errors
       ELSE disk' = disk /\ errors' = Append(errors, status)

\* line 128: the first call, whose result is not looked at
Fetch1(status, body) ==
    /\ pc = "fetch1"
    /\ download_subtitles_file(status, body)
    /\ pc' = "fetch2"
    /\ UNCHANGED << sub_path, full_url, cleaned_text, filtered_text, widgets,
                    string_vars >>

\* lines 130-133: the second call; st.stop() when it returns False
Fetch2(status, body) ==
    /\ pc = "fetch2"
    /\ download_subtitles_file(status, body)
    /\ pc' = IF status = HTTP_OK THEN "parse" ELSE "stopped"
    /\ UNCHANGED << sub_path, full_url, cleaned_text, filtered_text, widgets,
                    string_vars >>

\* line 131: cleaned_text = sanitize_vtt(FILENAME)
Parse ==
    /\ pc = "parse"
    /\ cleaned_text' = sanitize_vtt(TheFile)
    /\ pc' = "render"
    /\ UNCHANGED << sub_path, full_url, requests, statuses, errors, disk,
                    filtered_text, widgets, string_vars >>

\* lines 135-159: the text area and the three download buttons
Render ==
    /\ pc = "render"
    /\ IF Truthy(cleaned_text)
       THEN /\ filtered_text' = clean_hesitations(cleaned_text)
            /\ widgets' = ExportWidgets
       ELSE UNCHANGED << filtered_text, widgets >>
    /\ pc' = "done"
    /\ UNCHANGED << sub_path, full_url, requests, statuses, errors, disk,
                    cleaned_text, string_vars >>

Idle ==
    /\ pc = "idle"
    /\ sub_path = << >>
    /\ full_url = << >>
    /\ requests = << >>
    /\ statuses = << >>
    /\ errors = << >>
    /\ cleaned_text = << >>
    /\ filtered_text = << >>
    /\ widgets = { }

NoStrings ==
    /\ text = << >>
    /\ once = << >>
    /\ twice = << >>
    /\ order = FILLERS
    /\ stage = "input"

Init == Idle /\ disk = { } /\ NoStrings

Next ==
    \/ \E path \in SubPaths : Click(path)
    \/ \E path \in SubPaths : NoPress(path)
    \/ \E status \in Statuses, body \in Bodies : Fetch1(status, body)
    \/ \E status \in Statuses, body \in Bodies : Fetch2(status, body)
    \/ Parse
    \/ Render

Spec == Init /\ [][Next]_vars

(***************************************************************************)
(* sanitize_vtt on every payload: the run stands before line 131 with the  *)
(* payload in the file.                                                    *)
(***************************************************************************)
InitParse ==
    /\ pc = "parse"
    /\ sub_path = NormalizePath(<< "t" >>)
    /\ full_url = BASE_URL \o NormalizePath(<< "t" >>)
    /\ requests = << full_url, full_url >>
    /\ statuses = << HTTP_OK, HTTP_OK >>
    /\ errors = << >>
    /\ disk \in { { f } : f \in Payloads }
    /\ cleaned_text = << >>
    /\ filtered_text = << >>
    /\ widgets = { }
    /\ NoStrings

NextParse == Parse \/ Render

SpecParse == InitParse /\ [][NextParse]_vars

(***************************************************************************)
(* clean_hesitations on every text, and on its own result.                 *)
(***************************************************************************)
Clean ==
    /\ stage = "input"
    /\ once' = clean_hesitations(text)
    /\ stage' = "cleaned"
    /\ UNCHANGED << text, twice, order, pipeline_vars >>

Reclean ==
    /\ stage = "cleaned"
    /\ twice' = clean_hesitations(once)
    /\ stage' = "recleaned"
    /\ UNCHANGED << text, once, order, pipeline_vars >>

InitClean ==
    /\ Idle
    /\ disk = { }
    /\ text \in Texts
    /\ once = << >>
    /\ twice = << >>
    /\ order = FILLERS
    /\ stage = "input"

NextClean == Clean \/ Reclean

SpecClean == InitClean /\ [][NextClean]_vars

(***************************************************************************)
(* clean_hesitations with its filler list in every order.                  *)
(***************************************************************************)
CleanInOrder ==
    /\ stage = "input"
    /\ once' = CleanWith(order, text)
    /\ stage' = "cleaned"
    /\ UNCHANGED << text, twice, order, pipeline_vars >>

InitOrder ==
    /\ Idle
    /\ disk = { }
    /\ text \in Texts
    /\ once = << >>
    /\ twice = << >>
    /\ order \in Orders
    /\ stage = "input"

NextOrder == CleanInOrder

SpecOrder == InitOrder /\ [][NextOrder]_vars

(***************************************************************************)
(* What the properties below are stated with.                              *)
(***************************************************************************)
\* the spellings of letter c in either case
AnyCase(c) ==
    { c } \cup { UpperSeq[i] : i \in { j \in 1..26 : LowerSeq[j] = c } }

\* filler f stands at offset p of s, in any case, as a whole word: with a
\* non-word character or an end of the string on either side
WholeWordAt(s, f, p) ==
    /\ p + Len(f) <= Len(s)
    /\ \A k \in 1..Len(f) : s[p + k] \in AnyCase(f[k])
    /\ (p = 0 \/ s[p] \notin WordChars)
    /\ (p + Len(f) = Len(s) \/ s[p + Len(f) + 1] \notin WordChars)

\* the fillers (their indices) that occur in s as whole words
FillersIn(s) ==
    { i \in 1..Len(FILLERS) : \E p \in 0..Len(s) : WholeWordAt(s, FILLERS[i], p) }

StartsWithComma(s) == Len(s) >= 1 /\ s[1] = ","

\* s has two whitespace characters in a row
HasSpaceRun(s) ==
    \E p \in 1..Len(s) :
        p < Len(s) /\ s[p] \in WhiteSpace /\ s[p + 1] \in WhiteSpace

\* s has a whitespace character right before one of . , ! ?
HasSpaceBeforePunct(s) ==
    \E p \in 1..Len(s) :
        p < Len(s) /\ s[p] \in WhiteSpace /\ s[p + 1] \in SentencePunct

\* Step 1 as the specification words it: every whole-word occurrence of the
\* filler goes, with one . or , right after it when there is one, whatever
\* follows that character.
SpecFillerMatchLen(s, f, p) ==
    IF ~WholeWordAt(s, f, p) THEN 0
    ELSE IF p + Len(f) < Len(s) /\ s[p + Len(f) + 1] \in FillerPunct
         THEN Len(f) + 1
    ELSE Len(f)

RECURSIVE SpecSubFiller(_, _, _)
SpecSubFiller(s, f, p) ==
    IF p >= Len(s) THEN << >>
    ELSE LET n == SpecFillerMatchLen(s, f, p)
         IN  IF n > 0 THEN SpecSubFiller(s, f, p + n)
             ELSE << s[p + 1] >> \o SpecSubFiller(s, f, p + 1)

RECURSIVE SpecRemoveFillers(_, _)
SpecRemoveFillers(fs, s) ==
    IF fs = << >> THEN s
    ELSE SpecRemoveFillers(Tail(fs), SpecSubFiller(s, Head(fs), 0))

\* the five steps of the specification's normalize
SpecNormalize(s) ==
    strip(StripLeadingComma(FixSpaceBeforePunct(CollapseSpaces(
        SpecRemoveFillers(FILLERS, s)))))

\* s, from offset p on, is made of whitespace and of whole-word fillers,
\* each with at most one . or , attached to it
RECURSIVE OnlyFillers(_, _)
OnlyFillers(s, p) ==
    IF p >= Len(s) THEN TRUE
    ELSE IF s[p + 1] \in WhiteSpace THEN OnlyFillers(s, p + 1)
    ELSE \E i \in 1..Len(FILLERS) :
            LET n == SpecFillerMatchLen(s, FILLERS[i], p)
            IN  n > 0 /\ OnlyFillers(s, p + n)

\* the stripped lines of a payload
Trimmed(file) == [ i \in 1..Len(file) |-> strip(file[i]) ]

\* line has no "-->" in it
NoArrow(line) ==
    \A p \in 1..Len(line) :
        p + 2 <= Len(line) =>
            ~(line[p] = "-" /\ line[p + 1] = "-" /\ line[p + 2] = ">")

\* a stripped line that is not empty, not the header, not all decimal
\* digits and without the timestamp separator
DecimalSpokenText(line) ==
    /\ line # << >>
    /\ line # WEBVTT
    /\ \E i \in 1..Len(line) : line[i] \notin Digits
    /\ NoArrow(line)

\* the same with "not all digits" as str.isdigit() has it: the decimal
\* digits and the other digit characters
SpokenText(line) ==
    /\ line # << >>
    /\ line # WEBVTT
    /\ \E i \in 1..Len(line) : line[i] \notin Digits \cup OtherDigits
    /\ NoArrow(line)

DecimalKeptLines(file) == SelectSeq(Trimmed(file), DecimalSpokenText)

KeptLines(file) == SelectSeq(Trimmed(file), SpokenText)

Parsed == pc \in { "render", "done" }

Cleaned == stage \in { "cleaned", "recleaned" }

(***************************************************************************)
(* The properties.                                                         *)
(***************************************************************************)
\* C1: clean_hesitations is idempotent: cleaning the result of a cleaning
\* gives that result again. (SpecClean)
C1_Idempotent == stage = "recleaned" => twice = once

\* C2: the result of clean_hesitations does not start with a comma,
\* whatever the input starts with. (SpecClean)
C2_NoLeadingComma == Cleaned => ~StartsWithComma(once)

\* C3: the result of clean_hesitations holds no filler (uh, um, hmm), in any
\* letter case, as a whole word. (SpecClean)
C3_NoFillerLeft == Cleaned => FillersIn(once) = { }

\* C3, its case: a text with two different whole-word fillers, one of them
\* not in lower case, was cleaned and something is left of it.
C3_Witness ==
    /\ stage = "cleaned"
    /\ Cardinality(FillersIn(text)) >= 2
    /\ \E p \in 1..Len(text) : text[p] \in Uppers
    /\ once # << >>

\* C4: the result of clean_hesitations has no two whitespace characters in a
\* row and no whitespace character right before . , ! or ? (SpecClean)
C4_WhitespaceNormalForm ==
    Cleaned => ~HasSpaceRun(once) /\ ~HasSpaceBeforePunct(once)

\* C4, its case: a text that starts with a comma, has a run of whitespace
\* and whitespace before punctuation was cleaned, the leading comma was
\* removed and something is left.
C4_Witness ==
    /\ stage = "cleaned"
    /\ StartsWithComma(text)
    /\ HasSpaceRun(text)
    /\ HasSpaceBeforePunct(text)
    /\ once # << >>
    /\ ~StartsWithComma(once)

\* C5 as claimed: sanitize_vtt returns the single-space join, in the
\* payload's order, of the stripped lines that are not empty, not WEBVTT,
\* not all decimal digits and without "-->"; with no such line it returns
\* the empty string. (SpecParse)
C5_ParseJoinsDecimalKeptLines ==
    Parsed =>
        /\ cleaned_text = JoinSpace(DecimalKeptLines(TheFile))
        /\ (DecimalKeptLines(TheFile) = << >> => cleaned_text = << >>)

\* C5 as amended: sanitize_vtt returns the single-space join, in the
\* payload's order, of the stripped lines that are not empty, not WEBVTT,
\* not made of digit characters only (those str.isdigit() holds of, a
\* superscript digit among them) and without "-->"; with no such line it
\* returns the empty string. (SpecParse)
C5_ParseJoinsKeptLines ==
    Parsed =>
        /\ cleaned_text = JoinSpace(KeptLines(TheFile))
        /\ (KeptLines(TheFile) = << >> => cleaned_text = << >>)

\* C5, its case: a payload with a line that is a superscript digit, of
\* which two lines or more are kept and one or more is discarded, has been
\* parsed.
C5_Witness ==
    /\ pc = "render"
    /\ \E i \in 1..Len(TheFile) : TheFile[i] = << "²" >>
    /\ Len(KeptLines(TheFile)) >= 2
    /\ Len(KeptLines(TheFile)) < Len(TheFile)

\* C6: when a fetch of this run returned a status other than 200, the run
\* halts: the transcript is not parsed and no widget is shown. (Spec)
C6_FetchFailureHalts ==
    (\E i \in 1..Len(statuses) : statuses[i] # HTTP_OK) =>
        ~Parsed /\ widgets = { }

\* C7 as claimed: whenever the export widgets are shown, the cleaned
\* transcript handed to them is not empty. (Spec)
C7_ShownTextNonEmpty == widgets # { } => filtered_text # << >>

\* C7 as amended: whenever an export widget is shown, the parsed transcript
\* (the result of sanitize_vtt) is not empty and the text handed to the
\* widget is its cleaning; once the run is done with an empty parsed
\* transcript, no widget is shown. (Spec)
C7_ShownOnlyIfParsedNonEmpty ==
    /\ widgets # { } =>
           /\ cleaned_text # << >>
           /\ filtered_text = clean_hesitations(cleaned_text)
    /\ (pc = "done" /\ cleaned_text = << >>) => widgets = { }

\* C7, its case: the export widgets are shown with an empty cleaned
\* transcript, the parsed one being made of fillers only.
C7_Witness ==
    /\ pc = "done"
    /\ widgets = ExportWidgets
    /\ cleaned_text # << >>
    /\ filtered_text = << >>

\* C8: the result of clean_hesitations is that of the specification's five
\* steps, whose first step removes a whole-word filler together with one .
\* or , right after it, whatever follows that character. (SpecClean)
C8_RemovesAttachedPunctuation == Cleaned => once = SpecNormalize(text)

\* C9: a text made of fillers, whitespace and . or , attached to the
\* fillers only is cleaned to the empty string. (SpecClean)
C9_AllFillerGivesEmpty == (Cleaned /\ OnlyFillers(text, 0)) => once = << >>

\* C10: the result of clean_hesitations is the same in whatever order the
\* filler list is iterated. (SpecOrder)
C10_OrderIndependent == stage = "cleaned" => once = clean_hesitations(text)

====
